---- MODULE Spec2Model ----
(***************************************************************************)
(* A model of the new-post discovery and deduplication pipeline of the     *)
(* AVDBS board notifier: the seen-set ledger, the listing fetchers, the    *)
(* post content extractors and the pipeline coordinators of main.py,       *)
(* main_t50.py and main_avdbs.py, with the Playwright client crawler.py.   *)
(*                                                                         *)
(* Text is modelled as a sequence of atoms.  An atom is one character or   *)
(* one token of characters that the code never looks inside.  The atoms    *)
(* NL, SP and FF are the characters "\n", " " and "\x0c".                  *)
(***************************************************************************)
EXTENDS Integers, Sequences, FiniteSets, TLC

VARIABLES
    variant,    \* which coordinator script runs: "main", "t50" or "avdbs"
    scenario,   \* which family of inputs the environment offers
    file,       \* the ledger file: [exists, data]
    run,        \* number of the current run (0 before the first)
    pc,         \* position of the coordinator in the current run
    flags,      \* [force, reset] per run: FORCE_SEND_LATEST, RESET_SEEN
    posts,      \* result of the listing fetcher, per run
    seen,       \* the set returned by load_seen in this run
    queue,      \* the posts the loop iterates over (to_send / posts)
    idx,        \* index in queue of the next post to process
    sent,       \* the list `sent` of keys collected by the loop
    log,        \* what happened to each post handled in this run and the last
    appended,   \* keys passed to the ledger write, per run
    loaded,     \* the set the ledger load returned, per run
    errors,     \* error notifications sent (fatal authentication path)
    auth,       \* how the authentication of this run went
    ends,       \* how each run so far ended: "done" or "aborted"
                \* (the per-run records keep this run and the one before it;
                \* those of older runs are blanked)
    u1, u2,     \* canonicalization inputs
    c1, c2,     \* canonicalization results
    ents,       \* listing fetcher input: the anchors of a listing page
    hist,       \* listing fetcher input: the history (ledger) given to it
    cands,      \* listing fetcher result
    page,       \* extractor input: the fetched post page
    content,    \* extractor result
    shipped,    \* media items delivered for `content`
    failing,    \* the names of the media whose download failed
    recorded,   \* the key of the post was added to the list `sent`
    lg,         \* the ledger operations on their own
    notif,      \* the Telegram notifier on its own
    step        \* position of the pure-function specifications

vars == <<variant, scenario, file, run, pc, flags, posts, seen, queue, idx,
          sent, log, appended, loaded, errors, auth, ends, u1, u2, c1, c2, ents,
          hist, cands, page, content, shipped, failing, recorded, lg, notif, step>>

pipeVars == <<variant, scenario, file, run, pc, flags, posts, seen, queue,
              idx, sent, log, appended, loaded, errors, auth, ends>>
canonVars == <<u1, u2, c1, c2>>
listVars == <<ents, hist, cands>>
extractVars == <<page, content, shipped, failing, recorded>>
auxVars == <<lg, notif>>
pureVars == <<u1, u2, c1, c2, ents, hist, cands, page, content, shipped,
              failing, recorded, lg, notif, step>>

-----------------------------------------------------------------------------
(* Text *)

NL == "NL"
SP == "SP"
FF == "FF"

\* the characters str.strip() removes
Whitespace == {NL, SP, FF}

\* the characters str.splitlines() breaks a line at
LineBoundaries == {NL, FF}

\* the characters iterating a text file breaks a line at
FileLineEnds == {NL}

RECURSIVE LStrip(_)
LStrip(s) ==
    IF s # <<>> /\ Head(s) \in Whitespace THEN LStrip(Tail(s)) ELSE s

RECURSIVE RStrip(_)
RStrip(s) ==
    IF s # <<>> /\ s[Len(s)] \in Whitespace
    THEN RStrip(SubSeq(s, 1, Len(s) - 1))
    ELSE s

Strip(s) == RStrip(LStrip(s))

\* the pieces of s between the separators; a final separator ends the last
\* piece and opens no new one
RECURSIVE SplitAt(_, _, _)
SplitAt(s, seps, cur) ==
    IF s = <<>> THEN (IF cur = <<>> THEN <<>> ELSE <<cur>>)
    ELSE IF Head(s) \in seps THEN <<cur>> \o SplitAt(Tail(s), seps, <<>>)
    ELSE SplitAt(Tail(s), seps, Append(cur, Head(s)))

SeqToSet(s) == {s[i] : i \in 1..Len(s)}

RECURSIVE Flatten(_)
Flatten(ss) == IF ss = <<>> THEN <<>> ELSE Head(ss) \o Flatten(Tail(ss))

-----------------------------------------------------------------------------
(* Seen-set ledger *)

NoFile == [exists |-> FALSE, data |-> <<>>]

\* f.write(k + "\n") for each key, on a file opened with mode "a"
WriteLines(f, keys) ==
    [exists |-> TRUE,
     data |-> f.data \o Flatten([i \in 1..Len(keys) |-> Append(keys[i], NL)])]

\* main.py load_seen
load_seen_main(f, reset) ==
    IF reset THEN {}
    ELSE IF ~f.exists THEN {}
    ELSE {Strip(l) : l \in {x \in SeqToSet(SplitAt(f.data, FileLineEnds, <<>>)) :
                              Strip(x) # <<>>}}

\* main.py append_seen
append_seen(f, keys) == IF keys = <<>> THEN f ELSE WriteLines(f, keys)

\* main_t50.py load_seen
load_seen_t50(f) ==
    IF ~f.exists THEN {}
    ELSE SeqToSet(SplitAt(f.data, LineBoundaries, <<>>))

\* main_t50.py save_seen
save_seen_t50(f, keys) == WriteLines(f, keys)

\* main_avdbs.py load_seen
load_seen_avdbs(f) ==
    IF ~f.exists THEN {}
    ELSE {Strip(l) : l \in {x \in SeqToSet(SplitAt(f.data, FileLineEnds, <<>>)) :
                              Strip(x) # <<>>}}

\* main_avdbs.py save_seen
save_seen_avdbs(f, keys) == IF keys = <<>> THEN f ELSE WriteLines(f, keys)

-----------------------------------------------------------------------------
(* URLs *)

\* An href attribute value: host "rel" is a host-relative reference, kind
\* tells the shape of the path ("article" is /board/<digits>, "tab" is
\* /board/t<digits>), hasQ tells whether a "?" follows the path, params are
\* the query's key=value pairs and trail is whitespace that ends the value.
AVDBS_BASE == "https://www.avdbs.com"

Origin(host) ==
    IF host \in {"rel", "www.avdbs.com"} THEN AVDBS_BASE
    ELSE IF host = "avdbs.com" THEN "https://avdbs.com"
    ELSE "https://other.example"

PathAtoms(u) ==
    (IF u.kind = "article" THEN <<"/board/">>
     ELSE IF u.kind = "tab" THEN <<"/board/t">>
     ELSE <<"/menu/">>) \o u.id

RECURSIVE QueryAtoms(_)
QueryAtoms(ps) ==
    IF ps = <<>> THEN <<>>
    ELSE <<Head(ps).k, "=", Head(ps).v>> \o
         (IF Tail(ps) = <<>> THEN <<>> ELSE <<"&">> \o QueryAtoms(Tail(ps)))

\* the text of a URL
Ser(u) ==
    <<Origin(u.host)>> \o PathAtoms(u) \o
    (IF u.hasQ THEN <<"?">> \o QueryAtoms(u.params) ELSE <<>>) \o u.trail

\* href.strip()
StripHref(h) == [h EXCEPT !.trail = <<>>]

\* the query string urlparse finds: the pairs, and the trailing whitespace
\* when a "?" precedes it
HasQuery(u) == u.hasQ /\ (u.params # <<>> \/ u.trail # <<>>)

\* urljoin(base, href) for a base on www.avdbs.com: the reference is resolved
\* and put together again by urlunparse, which writes no "?" before an
\* empty query
urljoin(h) ==
    [h EXCEPT !.host = IF h.host = "rel" THEN "www.avdbs.com" ELSE h.host,
              !.hasQ = HasQuery(h)]

\* str.lower() on the parameter names in use
Lower(k) ==
    CASE k = "PAGE" -> "page"
      [] k = "Sort" -> "sort"
      [] k = "S" -> "s"
      [] OTHER -> k

NOISE_PARAMS == {"reply", "sort", "page", "s", "g"}

RECURSIVE KeptParams(_)
KeptParams(ps) ==
    IF ps = <<>> THEN <<>>
    ELSE IF Lower(Head(ps).k) \in NOISE_PARAMS THEN KeptParams(Tail(ps))
    ELSE <<Head(ps)>> \o KeptParams(Tail(ps))

\* main.py canon_url_remove_noise, on a URL without trailing whitespace
canon_url_remove_noise(u) ==
    IF u.params = <<>> THEN u
    ELSE [u EXCEPT !.params = KeptParams(u.params),
                   !.hasQ = KeptParams(u.params) # <<>>]

NoUrl == [host |-> "rel", kind |-> "nav", id |-> <<>>, hasQ |-> FALSE,
          params |-> <<>>, trail |-> <<>>]

\* main.py is_article_url: [ok, url]
is_article_url(h) ==
    LET full == urljoin(StripHref(h)) IN
    IF h = NoUrl THEN [ok |-> FALSE, url |-> NoUrl]
    ELSE IF full.host \notin {"www.avdbs.com", "avdbs.com"}
    THEN [ok |-> FALSE, url |-> NoUrl]
    ELSE IF full.kind = "tab" THEN [ok |-> FALSE, url |-> NoUrl]
    ELSE IF full.kind = "article" THEN [ok |-> TRUE, url |-> full]
    ELSE [ok |-> FALSE, url |-> NoUrl]

\* the order of Python's string comparison on the atoms in use
CodePoint(a) ==
    CASE a = NL -> 10 [] a = FF -> 12 [] a = SP -> 32
      [] a = "&" -> 38 [] a = "(" -> 40 [] a = ")" -> 41
      [] a = "/board/" -> 46 [] a = "/board/t" -> 47 [] a = "/menu/" -> 45
      [] a = "0" -> 48 [] a = "1" -> 49 [] a = "2" -> 50 [] a = "3" -> 51
      [] a = "4" -> 52 [] a = "5" -> 53 [] a = "6" -> 54 [] a = "7" -> 55
      [] a = "8" -> 56 [] a = "9" -> 57
      [] a = "=" -> 61 [] a = "?" -> 63
      [] a = "PAGE" -> 80 [] a = "S" -> 83 [] a = "Sort" -> 84
      [] a = "avdbs:t50:" -> 97
      [] a = "https://avdbs.com" -> 104 [] a = "https://other.example" -> 105
      [] a = "https://www.avdbs.com" -> 106
      [] a = "id" -> 107 [] a = "page" -> 112 [] a = "s" -> 115
      [] a = "sort" -> 116 [] a = "t" -> 117
      [] OTHER -> 200

RECURSIVE StrLess(_, _)
StrLess(a, b) ==
    IF b = <<>> THEN FALSE
    ELSE IF a = <<>> THEN TRUE
    ELSE IF CodePoint(Head(a)) # CodePoint(Head(b))
    THEN CodePoint(Head(a)) < CodePoint(Head(b))
    ELSE StrLess(Tail(a), Tail(b))

\* list.sort(key=lambda x: x["url"], reverse=True): a stable sort, greatest
\* URL first
RECURSIVE InsertDesc(_, _)
InsertDesc(p, s) ==
    IF s = <<>> THEN <<p>>
    ELSE IF StrLess(Head(s).url, p.url) THEN <<p>> \o s
    ELSE <<Head(s)>> \o InsertDesc(p, Tail(s))

RECURSIVE SortDesc(_)
SortDesc(s) ==
    IF s = <<>> THEN <<>>
    ELSE LET r == SortDesc(SubSeq(s, 1, Len(s) - 1)) IN InsertDesc(s[Len(s)], r)

-----------------------------------------------------------------------------
(* Listing fetchers *)

\* An anchor of a listing page: [href, title, notice, lnk].  notice tells
\* whether the anchor holds an h2 img.notice (a pinned entry), lnk whether it
\* has the classes "lnk vstt".

\* "(제목 없음)", seven characters
NO_TITLE == <<"(", "x", "x", SP, "x", "x", ")">>

Urls(ps) == {ps[i].url : i \in 1..Len(ps)}

\* posts[art] = {...}: a new entry, or the entry of art replaced
PutPost(ps, p) ==
    IF p.url \in Urls(ps)
    THEN [i \in 1..Len(ps) |-> IF ps[i].url = p.url THEN p ELSE ps[i]]
    ELSE Append(ps, p)

TitleOf(ps, url) == (CHOOSE i \in 1..Len(ps) : ps[i].url = url)

RECURSIVE CollectMain(_, _)
CollectMain(as, ps) ==
    IF as = <<>> THEN ps
    ELSE LET a == Head(as)
             art == is_article_url(a.href)
             url == Ser(canon_url_remove_noise(art.url))
             title == IF a.title = <<>> THEN NO_TITLE ELSE a.title
         IN IF ~art.ok THEN CollectMain(Tail(as), ps)
            ELSE IF url \notin Urls(ps) \/
                    Len(title) > Len(ps[TitleOf(ps, url)].title)
            THEN CollectMain(Tail(as), PutPost(ps, [url |-> url, title |-> title]))
            ELSE CollectMain(Tail(as), ps)

\* main.py parse_list, given the anchors of the fetched listing page
parse_list(as) == SortDesc(CollectMain(as, <<>>))

\* re.search(r"/board/\d+", href)
MatchT50(h) == h.kind = "article"

\* re.search(r"/board/\d+(?:\?.*)?$", href)
MatchAvdbs(h) == h.kind = "article" /\ (h.trail = <<>> \/ h.hasQ)

\* clean_url of main_t50.py and main_avdbs.py
clean_url(h) == Ser(urljoin(h))

RECURSIVE CollectT50(_, _)
CollectT50(as, ps) ==
    IF as = <<>> THEN ps
    ELSE LET a == Head(as) IN
         IF a.href # NoUrl /\ MatchT50(a.href) /\ a.title # <<>> /\
            clean_url(a.href) \notin Urls(ps)
         THEN CollectT50(Tail(as),
                         Append(ps, [url |-> clean_url(a.href), title |-> a.title]))
         ELSE CollectT50(Tail(as), ps)

\* main_t50.py get_posts
get_posts_t50(as) == CollectT50(as, <<>>)

RECURSIVE CollectAvdbs(_, _)
CollectAvdbs(as, ps) ==
    IF as = <<>> THEN ps
    ELSE LET a == Head(as) IN
         IF a.href # NoUrl /\ MatchAvdbs(a.href) /\ a.title # <<>> /\
            clean_url(a.href) \notin Urls(ps)
         THEN CollectAvdbs(Tail(as),
                           Append(ps, [url |-> clean_url(a.href), title |-> a.title]))
         ELSE CollectAvdbs(Tail(as), ps)

\* main_avdbs.py get_posts
get_posts_avdbs(as) == SortDesc(CollectAvdbs(as, <<>>))

\* crawler.py: the limit on new posts per board and run
NEW_POST_LIMIT == 5

\* crawler.py: is_notice, the test for a pinned entry
IsNotice(a) == a.notice

RECURSIVE ScanLinks(_, _, _)
ScanLinks(as, history, new) ==
    IF as = <<>> THEN new
    ELSE LET a == Head(as) IN
         IF ~a.lnk THEN ScanLinks(Tail(as), history, new)
         ELSE IF IsNotice(a) THEN ScanLinks(Tail(as), history, new)
         ELSE IF a.href = NoUrl THEN ScanLinks(Tail(as), history, new)
         ELSE IF Ser(a.href) \in history THEN ScanLinks(Tail(as), history, new)
         ELSE LET n == Append(new, [url |-> Ser(a.href), title |-> Strip(a.title)])
              IN IF Len(n) >= NEW_POST_LIMIT THEN n
                 ELSE ScanLinks(Tail(as), history, n)

\* crawler.py AVDBSClient.get_new_posts, given how the navigation ended
\* ("ok", "blocked" for an anti-bot title, "raise" for an exception)
get_new_posts(nav, as, history) ==
    IF nav # "ok" THEN <<>> ELSE ScanLinks(as, history, <<>>)

-----------------------------------------------------------------------------
(* Post content extractors *)

\* A media URL: [name, host, cpath, marks].  name 0 is an absent or empty
\* attribute; host "rel" is a host-relative reference; cpath tells whether the
\* path holds /data/, /upload/, /board/, /file(s)/ or /attach/; marks are the
\* filter substrings the URL contains.
NoAttr == [name |-> 0, host |-> "rel", cpath |-> FALSE, marks |-> {}]

\* x in url, for a filter substring x
Contains(u, x) == x = "" \/ x \in u.marks

\* main.py absolutize, main_t50.py / main_avdbs.py clean_url on a media URL
absolutize(u) ==
    IF u = NoAttr THEN NoAttr
    ELSE [u EXCEPT !.host = IF u.host = "rel" THEN "www.avdbs.com" ELSE u.host]

EXCLUDE_IMAGE_SUBSTRINGS ==
    {"/logo/", "/banner/", "/ads/", "/noimage", "/favicon", "/thumb/",
     "/placeholder/", "/loading", ".svg", "/img/level/", "mb3_", "avdbs_logo",
     "main-search", "new_9x9w.png", "/img/19cert/", "19_cert", "19_popup"}

ALLOWED_IMG_DOMAINS == {"avdbs.com", "www.avdbs.com", "i1.avdbs.com"}

\* main.py is_excluded_image
is_excluded_image(u) == \E x \in EXCLUDE_IMAGE_SUBSTRINGS : Contains(u, x)

\* main.py is_content_image
is_content_image(u) ==
    IF u.host \notin ALLOWED_IMG_DOMAINS THEN FALSE
    ELSE IF ~u.cpath THEN FALSE
    ELSE ~is_excluded_image(u)

\* list(dict.fromkeys(xs)): the first occurrence of each element, in order
RECURSIVE Dedup(_)
Dedup(xs) ==
    IF xs = <<>> THEN <<>>
    ELSE LET r == Dedup(SubSeq(xs, 1, Len(xs) - 1)) IN
         IF xs[Len(xs)] \in SeqToSet(r) THEN r ELSE Append(r, xs[Len(xs)])

MapSeq(xs, f(_)) == [i \in 1..Len(xs) |-> f(xs[i])]

\* lengths of the keywords "로그인" and "성인 인증"
LOGIN_KW_LEN == 3
ADULT_KW_LEN == 5

\* kw in text[:n], for a keyword first found at offset `at` (-1: nowhere)
InHead(at, klen, n) == at >= 0 /\ at + klen <= n

BIG_TEXT_LEN == 2000

\* is_login_gate without the test of the page title
is_login_gate_untitled(pg) ==
    IF pg.finalLogin THEN TRUE
    ELSE IF pg.formId /\ pg.formPw THEN TRUE
    ELSE IF InHead(pg.adultAt, ADULT_KW_LEN, BIG_TEXT_LEN) /\
            InHead(pg.loginAt, LOGIN_KW_LEN, BIG_TEXT_LEN) THEN TRUE
    ELSE FALSE

\* main.py is_login_gate
is_login_gate(pg) ==
    IF pg.finalLogin THEN TRUE
    ELSE IF pg.titleAVDBS /\ pg.titleLogin THEN TRUE
    ELSE IF pg.formId /\ pg.formPw THEN TRUE
    ELSE IF InHead(pg.adultAt, ADULT_KW_LEN, BIG_TEXT_LEN) /\
            InHead(pg.loginAt, LOGIN_KW_LEN, BIG_TEXT_LEN) THEN TRUE
    ELSE FALSE

SUMMARY_MAX_CHARS == 220
WEAK_SUMMARY_LEN == 60

\* len(summarize_text(container)) for a container whose cleaned text has
\* textLen characters
SummaryLen(textLen) ==
    IF textLen > SUMMARY_MAX_CHARS THEN SUMMARY_MAX_CHARS + 1 ELSE textLen

\* img.get("src") or img.get("data-src") or img.get("data-original") or
\* img.get("data-echo")
ImgSrcMain(img) ==
    IF img.src # NoAttr THEN img.src
    ELSE IF img.data_src # NoAttr THEN img.data_src
    ELSE IF img.data_original # NoAttr THEN img.data_original
    ELSE img.data_echo

NoData == [kind |-> "none", why |-> "", mediaTried |-> FALSE,
           summaryLen |-> 0, images |-> <<>>, videos |-> <<>>]

ImagesMain(pg) ==
    LET fromImgs ==
            SelectSeq(MapSeq(SelectSeq(MapSeq(pg.imgs, ImgSrcMain),
                                         LAMBDA x : x # NoAttr),
                              absolutize),
                       is_content_image)
        fromLinks == SelectSeq(MapSeq(pg.links, absolutize), is_content_image)
    IN Dedup(IF fromImgs = <<>> THEN fromLinks ELSE fromImgs)

\* parse_post rejecting a post that has a short text or no image
parse_post_main_either(pg) ==
    IF is_login_gate(pg) THEN [NoData EXCEPT !.why = "gate"]
    ELSE LET images == ImagesMain(pg) IN
         IF SummaryLen(pg.textLen) < WEAK_SUMMARY_LEN \/ images = <<>>
         THEN [NoData EXCEPT !.why = "weak", !.mediaTried = TRUE]
         ELSE [kind |-> "data", why |-> "", mediaTried |-> TRUE,
               summaryLen |-> SummaryLen(pg.textLen),
               images |-> images, videos |-> <<>>]

\* main.py parse_post on a page that was fetched
parse_post_main(pg) ==
    IF is_login_gate(pg) THEN [NoData EXCEPT !.why = "gate"]
    ELSE LET images == ImagesMain(pg) IN
         IF SummaryLen(pg.textLen) < WEAK_SUMMARY_LEN /\ images = <<>>
         THEN [NoData EXCEPT !.why = "weak", !.mediaTried = TRUE]
         ELSE [kind |-> "data", why |-> "", mediaTried |-> TRUE,
               summaryLen |-> SummaryLen(pg.textLen),
               images |-> images, videos |-> <<>>]

EXCLUDE_IMG_T50 ==
    {"logo", "banner", "ads", "level", "19cert", "new_9x9w", "loading_img"}

EXCLUDE_IMG_AVDBS ==
    {"logo", "banner", "ads", "level", "19cert", "new_9x9w", "loading_img",
     "favicon", "/thumb/", "/placeholder/", "aashop", "message_icon_main",
     "main-search-34x34", ""}

VALID_VIDEO_DOMAINS_T50 == {"youtube.com", "youtu.be", "dood", "avdbs.com"}
VALID_VIDEO_DOMAINS_AVDBS == {"youtube", "youtu.be", "dood", "avdbs.com"}

GATE_HEAD_T50 == 1000
GATE_HEAD_AVDBS == 1500

\* the gate test of main_t50.py parse_post
GateT50(pg) ==
    InHead(pg.loginAt, LOGIN_KW_LEN, GATE_HEAD_T50) \/
    InHead(pg.adultAt, ADULT_KW_LEN, GATE_HEAD_T50)

\* main_t50.py parse_post on a page that was fetched
parse_post_t50(pg) ==
    IF GateT50(pg) THEN [NoData EXCEPT !.why = "gate"]
    ELSE [kind |-> "data", why |-> "", mediaTried |-> TRUE, summaryLen |-> 0,
          images |->
              Dedup(MapSeq(SelectSeq(MapSeq(pg.imgs, LAMBDA i : i.src),
                               LAMBDA x : x # NoAttr /\
                                   ~\E m \in EXCLUDE_IMG_T50 : Contains(x, m)),
                           absolutize)),
          videos |->
              Dedup(MapSeq(SelectSeq(pg.iframes,
                               LAMBDA x : \E d \in VALID_VIDEO_DOMAINS_T50 :
                                              Contains(x, d)),
                           absolutize))]

\* the gate test of main_avdbs.py parse_post
GateAvdbs(pg) ==
    InHead(pg.adultAt, ADULT_KW_LEN, GATE_HEAD_AVDBS) \/
    InHead(pg.loginAt, LOGIN_KW_LEN, GATE_HEAD_AVDBS)

\* main_avdbs.py parse_post on a page that was fetched; hostmarks are the
\* filter substrings the host name of an iframe's src contains
parse_post_avdbs(pg) ==
    IF GateAvdbs(pg) THEN [NoData EXCEPT !.why = "gate"]
    ELSE [kind |-> "data", why |-> "", mediaTried |-> TRUE, summaryLen |-> 0,
          images |->
              Dedup(MapSeq(SelectSeq(MapSeq(pg.imgs, LAMBDA i : i.src),
                               LAMBDA x : x # NoAttr /\
                                   ~\E m \in EXCLUDE_IMG_AVDBS : Contains(x, m)),
                           absolutize)),
          videos |->
              Dedup(MapSeq(SelectSeq(pg.iframes,
                               LAMBDA x : x # NoAttr /\
                                   \E d \in VALID_VIDEO_DOMAINS_AVDBS :
                                       d \in x.hostmarks),
                           absolutize))]

CRAWLER_SKIP == {"blank.gif", "loading", "icon"}

\* img.get_attribute("data-original") or img.get_attribute("data-src") or
\* img.get_attribute("src")
ImgSrcCrawler(img) ==
    IF img.data_original # NoAttr THEN img.data_original
    ELSE IF img.data_src # NoAttr THEN img.data_src
    ELSE img.src

\* crawler.py AVDBSClient.extract_media: the URLs collected before the final
\* list(set(...)); an exception on the way leaves what was collected
MediaUrlsCrawler(pg) ==
    IF pg.fetch = "raise" THEN <<>>
    ELSE LET images ==
                 SelectSeq(MapSeq(SelectSeq(MapSeq(pg.imgs, ImgSrcCrawler),
                                            LAMBDA x : x # NoAttr),
                                  absolutize),
                           LAMBDA x : ~\E m \in CRAWLER_SKIP : Contains(x, m))
             videos == MapSeq(SelectSeq(pg.sources, LAMBDA x : x # NoAttr),
                              absolutize)
             frames == SelectSeq(pg.iframes,
                                 LAMBDA x : x # NoAttr /\ Contains(x, "youtube"))
         IN IF images \o videos = <<>> THEN frames ELSE images \o videos

\* the largest set whose every ordering is tried as the result of list(set(.))
MaxPermuted == 3

RECURSIVE AscByName(_)
AscByName(S) ==
    IF S = {} THEN <<>>
    ELSE LET x == CHOOSE x \in S : \A y \in S : x.name <= y.name
         IN <<x>> \o AscByName(S \ {x})

Reverse(xs) == [i \in 1..Len(xs) |-> xs[Len(xs) + 1 - i]]

\* list(set(xs)): the elements of xs once each, in an order the hash seed
\* decides; for a large set the ascending and the descending order stand for
\* the orders
Orders(S) ==
    IF Cardinality(S) <= MaxPermuted
    THEN {f \in [1..Cardinality(S) -> S] :
             \A i \in 1..Cardinality(S) : \A j \in 1..Cardinality(S) :
                 i # j => f[i] # f[j]}
    ELSE {AscByName(S), Reverse(AscByName(S))}

\* crawler.py AVDBSClient.extract_media: the lists it may return
extract_media(pg) == Orders(SeqToSet(MediaUrlsCrawler(pg)))

MEDIA_LIMIT == 10

FirstN(xs, n) == SubSeq(xs, 1, IF Len(xs) < n THEN Len(xs) ELSE n)

\* the images of a post sent without the slice
SendSliceMain_uncapped(images) == images

\* main.py process: images[:10]
SendSliceMain(images) == FirstN(images, MEDIA_LIMIT)

\* main_t50.py main: images[:10]
SendSliceT50(images) == FirstN(images, MEDIA_LIMIT)

\* main_avdbs.py main: images[:10]
SendSliceAvdbs(images) == FirstN(images, MEDIA_LIMIT)

\* crawler.py download_media: media_urls[:10]
DownloadSlice(urls) == FirstN(urls, MEDIA_LIMIT)

\* the download loop ended by the first download that fails
Delivered_until_failure(v, media, bad) ==
    LET sl == FirstN(media, MEDIA_LIMIT)
        ok == {n \in 0..Len(sl) : \A i \in 1..n : sl[i].name \notin bad}
    IN SubSeq(sl, 1, CHOOSE n \in ok : \A m \in ok : m <= n)

\* the items of the slice whose download succeeds, in order: what main.py,
\* main_t50.py and main_avdbs.py send as photos and what download_media returns
Delivered(v, media, bad) ==
    SelectSeq(IF v = "main" THEN SendSliceMain(media)
              ELSE IF v = "t50" THEN SendSliceT50(media)
              ELSE IF v = "avdbs" THEN SendSliceAvdbs(media)
              ELSE DownloadSlice(media),
              LAMBDA x : x.name \notin bad)

-----------------------------------------------------------------------------
(* Inputs of the pipeline *)

MaxRuns == 2

Variants == {"main", "t50", "avdbs"}

Href(id, ps, tr) ==
    [host |-> "rel", kind |-> "article", id |-> id, hasQ |-> ps # <<>>,
     params |-> ps, trail |-> tr]

Anchor(h, title, notice) ==
    [href |-> h, title |-> title, notice |-> notice, lnk |-> TRUE]

P9 == Href(<<"9">>, <<>>, <<>>)
P10 == Href(<<"1", "0">>, <<>>, <<>>)
PageParam == [k |-> "page", v |-> "2"]
IdParam == [k |-> "id", v |-> "1"]

\* the listing pages a board may show: plain entries, an entry reached through
\* a paging link next to a pinned entry, and an entry whose href ends in a
\* form feed
RunListings ==
    {<<Anchor(P9, <<"t">>, FALSE)>>,
     <<Anchor(P9, <<"t">>, FALSE), Anchor(P10, <<"t", "t">>, FALSE)>>,
     <<Anchor(Href(<<"9">>, <<PageParam>>, <<>>), <<"t">>, FALSE),
       Anchor(P10, <<"t">>, TRUE)>>,
     <<Anchor(Href(<<"9">>, <<IdParam>>, <<FF>>), <<"t">>, FALSE)>>}

\* a listing page with more new entries than NEW_POST_LIMIT
CapListing ==
    [i \in 1..(NEW_POST_LIMIT + 1) |->
        Anchor(Href(<<"1", CHOOSE d \in {"1", "2", "3", "4", "5", "6", "7", "8", "9"} :
                                CodePoint(d) = 48 + i>>, <<>>, <<>>),
               <<"t">>, FALSE)]

Listings(sc) == IF sc = "cap" THEN {CapListing} ELSE RunListings

RunLimit(sc) == IF sc \in {"cap", "faults"} THEN 1 ELSE MaxRuns

Img(n) == [src |-> [name |-> n, host |-> "i1.avdbs.com", cpath |-> TRUE,
                    marks |-> {}],
           data_src |-> NoAttr, data_original |-> NoAttr, data_echo |-> NoAttr]

Frame(n) == [name |-> n, host |-> "youtube.com", cpath |-> FALSE,
             marks |-> {"youtube.com", "youtube"}, hostmarks |-> {"youtube"}]

PlainPage ==
    [fetch |-> "ok", finalLogin |-> FALSE, titleAVDBS |-> TRUE,
     titleLogin |-> FALSE, formId |-> FALSE, formPw |-> FALSE,
     adultAt |-> -1, loginAt |-> -1, textLen |-> 100,
     imgs |-> <<>>, links |-> <<>>, iframes |-> <<>>, sources |-> <<>>]

\* a post with an image and an embedded video
PgPost == [PlainPage EXCEPT !.imgs = <<Img(1)>>, !.iframes = <<Frame(1)>>]
\* the login wall
PgGate == [PlainPage EXCEPT !.titleLogin = TRUE, !.loginAt = 6,
                            !.imgs = <<Img(1)>>, !.iframes = <<Frame(1)>>]
\* a page with next to no text and no media
PgWeak == [PlainPage EXCEPT !.textLen = 10]
\* the request for the page raises
PgRaise == [PlainPage EXCEPT !.fetch = "raise"]

PipePages(sc) ==
    IF sc = "cap" THEN {PgPost, PgGate} ELSE {PgPost, PgGate, PgRaise}

-----------------------------------------------------------------------------
(* Pipeline coordinators *)

KEY_PREFIX == "avdbs:t50:"

\* the ledger key of a post
KeyOf(v, url) == IF v = "main" THEN <<KEY_PREFIX>> \o url ELSE url

\* the ledger load of each script
LoadSeen(v, f, reset) ==
    IF v = "main" THEN load_seen_main(f, reset)
    ELSE IF v = "t50" THEN load_seen_t50(f)
    ELSE load_seen_avdbs(f)

\* the ledger write of each script
SaveSeen(v, f, keys) ==
    IF v = "main" THEN append_seen(f, keys)
    ELSE IF v = "t50" THEN save_seen_t50(f, keys)
    ELSE save_seen_avdbs(f, keys)

\* the listing fetcher of each script
FetchListing(v, as) ==
    IF v = "main" THEN parse_list(as)
    ELSE IF v = "t50" THEN get_posts_t50(as)
    ELSE get_posts_avdbs(as)

\* the extractor of each script
ParsePost(v, pg) ==
    IF v = "main" THEN parse_post_main(pg)
    ELSE IF v = "t50" THEN parse_post_t50(pg)
    ELSE parse_post_avdbs(pg)

\* to_send without the test against the ledger
ToSend_unfiltered(v, ps, sn, force) == ps

\* to_send of main.py process; the posts the loops of main_t50.py and
\* main_avdbs.py do not pass over
ToSend(v, ps, sn, force) ==
    LET new == SelectSeq(ps, LAMBDA p : KeyOf(v, p.url) \notin sn) IN
    IF v = "main" /\ force /\ new = <<>> /\ ps # <<>> THEN <<ps[1]>> ELSE new

\* the per-run record s with all entries but the last one blanked
KeepLast(s, blank) == [i \in 1..Len(s) |-> IF i = Len(s) THEN s[i] ELSE blank]

EndRun(how) ==
    /\ pc' = how
    /\ ends' = Append(KeepLast(ends, "past"), how)

\* the values FORCE_SEND_LATEST and RESET_SEEN may take: only main.py reads them
EnvChoices(v, sc) == IF v = "main" /\ sc # "cap" THEN BOOLEAN ELSE {FALSE}

\* the values of an input of the authentication of main.py, which is read
\* only when the inputs before it leave the outcome open
AuthChoices(v, read) == IF v = "main" /\ read THEN BOOLEAN ELSE {FALSE}

\* the authentication of process with its result ignored
Authenticated_unchecked(v, pre, creds, login) == TRUE

\* main.py process: the cookie preflight passed, or it failed and the login
\* with the configured credentials passed; the other scripts do not check
Authenticated(v, pre, creds, login) == v # "main" \/ pre \/ (creds /\ login)

\* the outcomes of the request that sends the error notification, made when
\* the authentication failed; the request and the ledger write fail in the
\* scenario of the faults of one run only
NoteChoices(sc, authed) ==
    IF sc = "faults" /\ ~authed THEN {"ok", "raise"} ELSE {"ok"}

\* the record of a run whose ledger write was not reached
NotWritten == [did |-> FALSE, keys |-> <<>>, raised |-> FALSE]

\* the outcomes of the ledger write: append_seen and save_seen of
\* main_avdbs.py return before they open the file when there is no key
WriteOutcomes(sc, v, keys) ==
    IF sc # "faults" \/ (v \in {"main", "avdbs"} /\ keys = <<>>)
    THEN {"ok"} ELSE {"ok", "raise"}

\* the ledger file after a write that raised: the keys written before the
\* error are in the file
PartialWrites(v, f, keys) ==
    {f} \cup {SaveSeen(v, f, SubSeq(keys, 1, n)) : n \in 0..(Len(keys) - 1)}

\* the record of no authentication made yet
NoAuth == [pre |-> FALSE, creds |-> FALSE, login |-> FALSE, tries |-> 0,
           told |-> 0, listed |-> FALSE]

\* the outcomes of the request for the listing page, made once authenticated
NavChoices(read) == IF read THEN {"ok", "raise"} ELSE {"ok"}

\* the listing pages the request may return, when it returns
ListingChoices(sc, read) == IF read THEN Listings(sc) ELSE {<<>>}

\* the start of a run, up to the first iteration of the loop over the posts
StartRun ==
    /\ pc \in {"idle", "done", "aborted"}
    /\ run < RunLimit(scenario)
    /\ run' = run + 1
    /\ idx' = 1
    /\ sent' = <<>>
    /\ \E force \in EnvChoices(variant, scenario),
          reset \in EnvChoices(variant, scenario),
          pre \in AuthChoices(variant, TRUE) :
       \E creds \in AuthChoices(variant, ~pre) :
       \E login \in AuthChoices(variant, creds) :
       \E nav \in NavChoices(Authenticated(variant, pre, creds, login)),
          note \in NoteChoices(scenario,
                               Authenticated(variant, pre, creds, login)) :
       \E as \in ListingChoices(scenario,
                                Authenticated(variant, pre, creds, login)
                                /\ nav = "ok") :
       \E ps \in {FetchListing(variant, as)},
          sn \in {LoadSeen(variant, file, reset)} :
       \E ts \in {ToSend(variant, ps, sn, force)} :
        LET authed == Authenticated(variant, pre, creds, login)
            fl == [force |-> force, reset |-> reset]
            \* main.py loads the ledger after the listing, and only when the
            \* listing holds a post; the others load it first
            didLoad == authed /\
                       (variant # "main" \/ (nav = "ok" /\ ps # <<>>))
            listedOk == authed /\ nav = "ok"
        IN /\ flags' = Append(KeepLast(flags, [force |-> FALSE, reset |-> FALSE]), fl)
           /\ errors' = IF authed THEN errors ELSE errors + 1
           /\ auth' = IF scenario = "faults"
                       THEN [pre |-> pre, creds |-> creds, login |-> login,
                             tries |-> IF variant = "main" /\ ~pre /\ creds
                                       THEN 1 ELSE 0,
                             told |-> IF authed THEN 0 ELSE 1,
                             listed |-> authed]
                       ELSE NoAuth
           /\ posts' = Append(KeepLast(posts, <<>>), IF listedOk THEN ps ELSE <<>>)
           /\ seen' = IF didLoad THEN sn ELSE {}
           /\ loaded' = Append(KeepLast(loaded, [did |-> FALSE, set |-> {}]),
                               [did |-> didLoad,
                                set |-> IF didLoad THEN sn ELSE {}])
           /\ appended' = Append(KeepLast(appended, NotWritten), NotWritten)
           /\ queue' = IF listedOk THEN ts ELSE <<>>
           /\ IF ~authed
              THEN EndRun(IF note = "raise" THEN "aborted" ELSE "done")
              ELSE IF nav = "raise" THEN EndRun("aborted")
              ELSE IF variant = "main" /\ (ps = <<>> \/ ts = <<>>)
              THEN EndRun("done")
              ELSE pc' = "loop" /\ ends' = KeepLast(ends, "past")
    /\ log' = {e \in log : e.run = run}
    /\ UNCHANGED <<variant, scenario, file>>
    /\ UNCHANGED pureVars

Entry(p, pg, res, data, told) ==
    [run |-> run, url |-> p.url, pg |-> pg, res |-> res,
     mediaTried |-> data.mediaTried, notified |-> told]

\* one iteration of the loop over the posts
Process ==
    /\ pc = "loop"
    /\ idx <= Len(queue)
    /\ \E pg \in PipePages(scenario), tg \in {"ok", "raise"} :
       \E data \in {ParsePost(variant, pg)} :
        LET p == queue[idx]
            empty == variant # "main" /\ data.images = <<>> /\ data.videos = <<>>
        IN IF pg.fetch = "raise"
           THEN /\ log' = log \cup {Entry(p, pg, "raise", NoData, FALSE)}
                /\ EndRun("aborted")
                /\ UNCHANGED <<idx, sent>>
           ELSE IF data.kind = "none" \/ empty
           THEN /\ log' = log \cup {Entry(p, pg, "none", data, FALSE)}
                /\ idx' = idx + 1
                /\ UNCHANGED <<sent, pc, ends>>
           ELSE IF tg = "raise"
           THEN /\ log' = log \cup {Entry(p, pg, "sendraise", data, FALSE)}
                /\ EndRun("aborted")
                /\ UNCHANGED <<idx, sent>>
           ELSE /\ log' = log \cup {Entry(p, pg, "data", data, TRUE)}
                /\ sent' = Append(sent, KeyOf(variant, p.url))
                /\ idx' = idx + 1
                /\ UNCHANGED <<pc, ends>>
    /\ UNCHANGED <<variant, scenario, file, run, flags, posts, seen, queue,
                   appended, loaded, errors, auth>>
    /\ UNCHANGED pureVars

\* the end of the loop: the collected keys are written to the ledger
Finish ==
    /\ pc = "loop"
    /\ idx > Len(queue)
    /\ \E io \in WriteOutcomes(scenario, variant, sent) :
        IF io = "ok"
        THEN /\ file' = SaveSeen(variant, file, sent)
             /\ appended' = [appended EXCEPT
                                 ![run] = [did |-> TRUE, keys |-> sent,
                                           raised |-> FALSE]]
             /\ EndRun("done")
        ELSE /\ file' \in PartialWrites(variant, file, sent)
             /\ appended' = [appended EXCEPT
                                 ![run] = [did |-> FALSE, keys |-> <<>>,
                                           raised |-> TRUE]]
             /\ EndRun("aborted")
    /\ UNCHANGED <<variant, scenario, run, flags, posts, seen, queue, idx,
                   sent, log, loaded, errors, auth>>
    /\ UNCHANGED pureVars

\* no ledger operation and no notifier call made yet
LgIdle == [step |-> "idle", store |-> "seen", f |-> NoFile, old |-> {},
           given |-> <<>>, io |-> "ok"]
TgIdle == [step |-> "idle", caption |-> "", media |-> <<>>, group |-> <<>>,
           files |-> {}, posted |-> FALSE, status |-> "", said |-> <<>>,
           textStatus |-> ""]

InitPure ==
    /\ u1 = NoUrl /\ u2 = NoUrl /\ c1 = NoUrl /\ c2 = NoUrl
    /\ ents = <<>> /\ hist = {} /\ cands = <<>>
    /\ page = PlainPage /\ content = NoData /\ shipped = <<>>
    /\ failing = {} /\ recorded = FALSE
    /\ lg = LgIdle /\ notif = TgIdle
    /\ step = "idle"

InitPipe(sc) ==
    /\ variant \in Variants
    /\ scenario = sc
    /\ file = NoFile
    /\ run = 0
    /\ pc = "idle"
    /\ flags = <<>>
    /\ posts = <<>>
    /\ seen = {}
    /\ queue = <<>>
    /\ idx = 1
    /\ sent = <<>>
    /\ log = {}
    /\ appended = <<>>
    /\ loaded = <<>>
    /\ errors = 0
    /\ auth = NoAuth
    /\ ends = <<>>

Init == InitPipe("runs") /\ InitPure

Next == StartRun \/ Process \/ Finish

Spec == Init /\ [][Next]_vars

InitCap == InitPipe("cap") /\ InitPure

SpecCap == InitCap /\ [][Next]_vars

InitFaults == InitPipe("faults") /\ InitPure

SpecFaults == InitFaults /\ [][Next]_vars

-----------------------------------------------------------------------------
(* Canonicalization of URLs *)

MaxParams == 2

ParamChoices ==
    {[k |-> "page", v |-> "2"], [k |-> "PAGE", v |-> "1"],
     [k |-> "Sort", v |-> "1"], [k |-> "id", v |-> "1"]}

ParamSeqs == UNION {[1..n -> ParamChoices] : n \in 0..MaxParams}

\* the URLs of post 9, with and without a "?", over the parameter lists
CanonUrls ==
    {[host |-> "www.avdbs.com", kind |-> "article", id |-> <<"9">>,
      hasQ |-> q, params |-> ps, trail |-> <<>>] :
        q \in {TRUE}, ps \in ParamSeqs}
    \cup
    {[host |-> "www.avdbs.com", kind |-> "article", id |-> <<"9">>,
      hasQ |-> FALSE, params |-> <<>>, trail |-> <<>>]}

InitIdle(vs, sc) ==
    /\ variant \in vs
    /\ scenario = sc
    /\ file = NoFile
    /\ run = 0
    /\ pc = "idle"
    /\ flags = <<>>
    /\ posts = <<>>
    /\ seen = {}
    /\ queue = <<>>
    /\ idx = 1
    /\ sent = <<>>
    /\ log = {}
    /\ appended = <<>>
    /\ loaded = <<>>
    /\ errors = 0
    /\ auth = NoAuth
    /\ ends = <<>>

PickUrls ==
    /\ step = "idle"
    /\ \E a \in CanonUrls, b \in CanonUrls : u1' = a /\ u2' = b
    /\ step' = "picked"
    /\ UNCHANGED <<auxVars, pipeVars, c1, c2, listVars, extractVars>>

Canonicalize ==
    /\ step = "picked"
    /\ c1' = canon_url_remove_noise(u1)
    /\ c2' = canon_url_remove_noise(u2)
    /\ step' = "canon"
    /\ UNCHANGED <<auxVars, pipeVars, u1, u2, listVars, extractVars>>

InitCanon == InitIdle({"main"}, "canon") /\ InitPure

NextCanon == PickUrls \/ Canonicalize

SpecCanon == InitCanon /\ [][NextCanon]_vars

-----------------------------------------------------------------------------
(* Listing fetchers on their own *)

MaxEntries == 3

Fetchers == {"main", "t50", "avdbs", "crawler"}

P8 == Href(<<"8">>, <<>>, <<>>)

ListAnchors ==
    {Anchor(P9, <<"t">>, FALSE),
     Anchor(P10, <<"t">>, TRUE),
     Anchor(P10, <<"t">>, FALSE),
     Anchor(P8, <<"t">>, FALSE),
     Anchor(Href(<<"9">>, <<PageParam>>, <<>>), <<"t", "t">>, FALSE),
     Anchor([P9 EXCEPT !.kind = "tab"], <<"t">>, FALSE),
     [Anchor(P8, <<>>, FALSE) EXCEPT !.lnk = FALSE]}

ListInputs == UNION {[1..n -> ListAnchors] : n \in 0..MaxEntries}

Histories == {{}, {Ser(P8)}, {Ser(P9), Ser(P10)}}

PickListing ==
    /\ step = "idle"
    /\ ents' \in ListInputs
    /\ hist' \in Histories
    /\ step' = "picked"
    /\ UNCHANGED <<auxVars, pipeVars, canonVars, cands, extractVars>>

\* the listing fetcher of the script runs on the picked page
FetchList ==
    /\ step = "picked"
    /\ \E nav \in {"ok", "blocked", "raise"} :
        IF variant = "crawler"
        THEN cands' = get_new_posts(nav, ents, hist) /\ step' = "listed"
        ELSE IF nav = "raise"
        THEN cands' = <<>> /\ step' = "raised"
        ELSE cands' = FetchListing(variant, ents) /\ step' = "listed"
    /\ UNCHANGED <<auxVars, pipeVars, canonVars, ents, hist, extractVars>>

InitList == InitIdle(Fetchers, "list") /\ InitPure

NextList == PickListing \/ FetchList

SpecList == InitList /\ [][NextList]_vars

-----------------------------------------------------------------------------
(* Extraction and delivery of one post *)

\* the number of images of the page with more images than MEDIA_LIMIT
ManyImages == 12

PgMany == [PlainPage EXCEPT !.imgs = [i \in 1..ManyImages |-> Img(i)]]
PgDup == [PlainPage EXCEPT !.imgs = <<Img(1), Img(1), Img(2)>>]
PgLogo ==
    [PlainPage EXCEPT
        !.imgs = <<[Img(1) EXCEPT !.src.marks = {"/logo/", "logo", "avdbs_logo"}],
                   Img(2)>>]
PgLazy ==
    [PlainPage EXCEPT
        !.imgs = <<[Img(1) EXCEPT !.src.marks = {"/loading", "loading"},
                                  !.data_src = Img(2).src]>>]
PgVideo ==
    [PlainPage EXCEPT
        !.sources = <<[name |-> 3, host |-> "rel", cpath |-> TRUE, marks |-> {}]>>,
        !.iframes = <<Frame(1)>>]

\* pages around the weak-content threshold: a short text next to an image,
\* and texts one character under and at the threshold with no image
PgShortImage == [PlainPage EXCEPT !.textLen = 10, !.imgs = <<Img(1)>>]
PgText59 == [PlainPage EXCEPT !.textLen = WEAK_SUMMARY_LEN - 1]
PgText60 == [PlainPage EXCEPT !.textLen = WEAK_SUMMARY_LEN]

\* an image element whose src names one picture and whose data-original
\* names another
PgEager ==
    [PlainPage EXCEPT !.imgs = <<[Img(1) EXCEPT !.data_original = Img(2).src]>>]

ExtractPages ==
    {PgPost, PgGate, PgWeak, PgRaise, PgMany, PgDup, PgLogo, PgLazy, PgVideo,
     PlainPage, PgShortImage, PgText59, PgText60, PgEager}

\* the names of the media whose download may fail
FailingNames == {1, 10}

FetchPage ==
    /\ step = "idle"
    /\ page' \in ExtractPages
    /\ step' = "fetched"
    /\ UNCHANGED <<auxVars, pipeVars, canonVars, listVars, content, shipped,
                   failing, recorded>>

\* the extractor of the script runs on the fetched page
Extract ==
    /\ step = "fetched"
    /\ IF variant = "crawler"
       THEN /\ \E m \in extract_media(page) :
                 content' = [kind |-> "data", why |-> "", mediaTried |-> TRUE,
                             summaryLen |-> 0, images |-> m, videos |-> <<>>]
            /\ step' = "extracted"
       ELSE IF page.fetch = "raise"
       THEN content' = NoData /\ step' = "raised"
       ELSE content' = ParsePost(variant, page) /\ step' = "extracted"
    /\ UNCHANGED <<auxVars, pipeVars, canonVars, listVars, page, shipped,
                   failing, recorded>>

\* the media of the extracted post are downloaded and sent
Deliver ==
    /\ step = "extracted"
    /\ content.kind = "data"
    /\ IF variant \in {"t50", "avdbs"} /\
          content.images = <<>> /\ content.videos = <<>>
       THEN /\ shipped' = <<>> /\ failing' = {} /\ recorded' = FALSE
            /\ step' = "skipped"
       ELSE /\ \E bad \in SUBSET FailingNames :
                 /\ shipped' = Delivered(variant, content.images, bad)
                 /\ failing' = bad
            /\ recorded' = (variant # "crawler")
            /\ step' = "delivered"
    /\ UNCHANGED <<auxVars, pipeVars, canonVars, listVars, page, content>>

InitExtract == InitIdle(Fetchers, "extract") /\ InitPure

NextExtract == FetchPage \/ Extract \/ Deliver

SpecExtract == InitExtract /\ [][NextExtract]_vars

-----------------------------------------------------------------------------
(* The ledger operations on their own *)

\* the longest key sequence given to a ledger write
MaxKeys == 2

\* the history file of utils.py: a JSON list, or what a write that raised
\* after open(.., "w") left of it
NoHistory == [exists |-> FALSE, valid |-> TRUE, data |-> <<>>]

\* utils.py load_history: [] when the file is missing or json.load raises
load_history(f) == IF f.exists /\ f.valid THEN f.data ELSE <<>>

\* utils.py save_history: the file is opened with "w" and the list dumped;
\* an exception is logged, whether open raised it or the dump
save_history(f, history, io) ==
    IF io = "ok" THEN [exists |-> TRUE, valid |-> TRUE, data |-> history]
    ELSE IF io = "open" THEN f
    ELSE [exists |-> TRUE, valid |-> FALSE, data |-> <<>>]

\* the keys main.py makes of the posts of a listing page
LedgerKeys ==
    {KeyOf("main", parse_list(<<Anchor(h, <<"t">>, FALSE)>>)[1].url) :
        h \in {P8, P9, P10}}

KeySeqs == UNION {[1..n -> LedgerKeys] : n \in 0..MaxKeys}

Stores == {"seen", "history"}

\* the file a store holds after one write to a missing file
FirstWrite(store, keys) ==
    IF store = "seen" THEN append_seen(NoFile, keys)
    ELSE save_history(NoHistory, keys, "ok")

\* the set of keys a store holds
LoadedKeys(store, f) ==
    IF store = "seen" THEN load_seen_main(f, FALSE)
    ELSE SeqToSet(load_history(f))

\* a ledger that earlier runs wrote
LedgerSeed ==
    /\ step = "idle"
    /\ \E store \in Stores, keys \in KeySeqs :
        lg' = [step |-> "stored", store |-> store,
               f |-> FirstWrite(store, keys),
               old |-> LoadedKeys(store, FirstWrite(store, keys)),
               given |-> <<>>, io |-> "ok"]
    /\ step' = "stored"
    /\ UNCHANGED <<notif, pipeVars, canonVars, listVars, extractVars>>

\* one call of the ledger write: append_seen(keys) or save_history(keys)
LedgerWrite ==
    /\ step = "stored"
    /\ \E keys \in KeySeqs, io \in {"ok", "open", "write"} :
        \E g \in IF lg.store = "history"
                  THEN {save_history(lg.f, keys, io)}
                  ELSE IF io = "ok" \/ keys = <<>>
                  THEN {append_seen(lg.f, keys)}
                  ELSE IF io = "open" THEN {lg.f}
                  ELSE PartialWrites("main", lg.f, keys) :
            lg' = [lg EXCEPT !.step = "written", !.f = g, !.given = keys,
                             !.io = IF lg.store = "seen" /\ keys = <<>>
                                    THEN "ok" ELSE io]
    /\ step' = "written"
    /\ UNCHANGED <<notif, pipeVars, canonVars, listVars, extractVars>>

InitLedger == InitIdle({"main"}, "ledger") /\ InitPure

NextLedger == LedgerSeed \/ LedgerWrite

SpecLedger == InitLedger /\ [][NextLedger]_vars

-----------------------------------------------------------------------------
(* The Telegram notifier of notifier.py *)

\* the longest list of media files tried with every pattern of files that
\* cannot be opened
MaxFiles == 3

\* Telegram's limit on the items of a media group
GROUP_LIMIT == 10

CAPTION == "caption"

\* media_files: n downloaded files, of which those named in bad cannot be
\* opened
MediaFiles(n, bad) ==
    [i \in 1..n |-> [type |-> IF i = 2 THEN "video" ELSE "photo",
                     path |-> i, opens |-> i \notin bad]]

\* the lists of media files a caller hands over: short ones, and one longer
\* than the limit of a media group
MediaInputs ==
    {MediaFiles(n, bad) : n \in 0..MaxFiles, bad \in SUBSET (1..MaxFiles)}
    \cup {MediaFiles(ManyImages, bad) : bad \in {{}, {1}}}

\* _send_media_group: the descriptors of the media group, one for each of
\* the first ten files; file_key is "media<i>" with i counted from 0
MediaGroup(media) ==
    [i \in 1..Len(FirstN(media, GROUP_LIMIT)) |->
        [type |-> media[i].type, key |-> i - 1, caption |-> i = 1]]

\* _send_media_group: the keys of files_to_send, the files that open
FilesToSend(media) ==
    {i - 1 : i \in {j \in 1..Len(FirstN(media, GROUP_LIMIT)) : media[j].opens}}

\* _send_text: one sendMessage request; an error is logged, not raised
send_text(n, text, outcome) ==
    [n EXCEPT !.said = Append(@, text), !.textStatus = outcome,
              !.step = "returned"]

\* _send_media_group after the request: a status other than 200 without the
\* fallback to text
post_media_group_silent(n, outcome) ==
    IF outcome = "raise"
    THEN [n EXCEPT !.posted = TRUE, !.status = outcome, !.step = "text"]
    ELSE [n EXCEPT !.posted = TRUE, !.status = outcome, !.step = "returned"]

\* _send_media_group after the request: a status other than 200 and an
\* exception both fall back to the text
post_media_group(n, outcome) ==
    IF outcome = "200"
    THEN [n EXCEPT !.posted = TRUE, !.status = outcome, !.step = "returned"]
    ELSE [n EXCEPT !.posted = TRUE, !.status = outcome, !.step = "text"]

\* send_message(text, media_files) is called
NotifyCall ==
    /\ step = "idle"
    /\ \E m \in MediaInputs :
        notif' = [TgIdle EXCEPT !.step = "called", !.caption = CAPTION,
                                !.media = m]
    /\ step' = "called"
    /\ UNCHANGED <<lg, pipeVars, canonVars, listVars, extractVars>>

\* send_message and the loop of _send_media_group, up to the request
NotifyBuild ==
    /\ notif.step = "called"
    /\ notif' = IF notif.media = <<>>
                THEN [notif EXCEPT !.step = "text"]
                ELSE [notif EXCEPT
                         !.group = MediaGroup(notif.media),
                         !.files = FilesToSend(notif.media),
                         !.step = IF FilesToSend(notif.media) = {}
                                  THEN "text" ELSE "ready"]
    /\ UNCHANGED <<lg, step, pipeVars, canonVars, listVars, extractVars>>

\* the sendMediaGroup request and what follows it
NotifyPost ==
    /\ notif.step = "ready"
    /\ \E outcome \in {"200", "400", "raise"} :
        notif' = post_media_group(notif, outcome)
    /\ UNCHANGED <<lg, step, pipeVars, canonVars, listVars, extractVars>>

\* the sendMessage request of _send_text, which may fail
NotifyText ==
    /\ notif.step = "text"
    /\ \E outcome \in {"200", "400", "raise"} :
        notif' = send_text(notif, notif.caption, outcome)
    /\ UNCHANGED <<lg, step, pipeVars, canonVars, listVars, extractVars>>

\* the coordinator that called send_message appends the key of the post to
\* the ledger once the call has returned
NotifyRecord ==
    /\ notif.step = "returned"
    /\ notif' = [notif EXCEPT !.step = "recorded"]
    /\ UNCHANGED <<lg, step, pipeVars, canonVars, listVars, extractVars>>

InitNotify == InitIdle({"crawler"}, "notify") /\ InitPure

NextNotify ==
    NotifyCall \/ NotifyBuild \/ NotifyPost \/ NotifyText \/ NotifyRecord

SpecNotify == InitNotify /\ [][NextNotify]_vars

-----------------------------------------------------------------------------
(* Properties of the pipeline *)

Notified(r) == {e \in log : e.run = r /\ e.notified}

\* no run so far was started with RESET_SEEN or FORCE_SEND_LATEST
NoOverride == \A r \in 1..Len(flags) : ~flags[r].force /\ ~flags[r].reset

\* the keys the ledger file holds for the script that reads it
Persisted == LoadSeen(variant, file, FALSE)

\* C1: over runs of main.py that share one ledger file, with no reset and no
\* forced resend, no post URL is announced in two different runs, however
\* the earlier run ended
C1_AtMostOnceAcrossRuns ==
    (variant = "main" /\ NoOverride) =>
        \A e \in log : \A d \in log :
            (e.notified /\ d.notified /\ e.url = d.url) => e.run = d.run

\* C2: when the extraction of the next post of the queue begins, the keys of
\* the posts delivered before it in this run are in the persisted ledger
C2_KeyPersistedBeforeNextPost ==
    (pc = "loop" /\ idx <= Len(queue)) =>
        \A i \in 1..Len(sent) : sent[i] \in Persisted

\* run r ran to its end, and run r + 1 read the ledger it left, without a
\* forced resend, from a listing that shows no post run r did not see
Rerun(r) ==
    /\ r + 1 <= run
    /\ ends[r] = "done"
    /\ ~flags[r + 1].reset
    /\ ~flags[r + 1].force
    /\ Urls(posts[r + 1]) \subseteq Urls(posts[r])

\* C3, as stated: a run that follows a completed run, with no new post in
\* the listing and the ledger of that run, delivers nothing (main.py)
C3_RerunDeliversNothing ==
    \A r \in 1..MaxRuns :
        (variant = "main" /\ Rerun(r)) => Notified(r + 1) = {}

\* C3, amended: such a run delivers no post the earlier run delivered; what
\* it delivers are posts whose extraction gave None in the earlier run
C3_RerunDeliversOnlySkipped ==
    \A r \in 1..MaxRuns :
        (variant = "main" /\ Rerun(r)) =>
            \A e \in Notified(r + 1) :
                /\ ~\E d \in Notified(r) : d.url = e.url
                /\ \E d \in log : d.run = r /\ d.url = e.url /\ d.res = "none"

\* run 1 delivered a post and skipped another, and the rerun delivered the
\* skipped one only
C3_Witness ==
    /\ variant = "main"
    /\ Rerun(1)
    /\ Len(ends) = 2 /\ ends[2] = "done"
    /\ Notified(1) # {}
    /\ Notified(2) # {}
    /\ \A e \in Notified(2) : \E d \in log : d.run = 1 /\ d.url = e.url /\ d.res = "none"

\* C4: every key given to the ledger write in run N is in the set the
\* ledger load returns in run N + 1, for main.py (RESET_SEEN unset) and
\* main_t50.py
C4_AppendedKeysAreLoaded ==
    \A r \in 1..MaxRuns :
        (/\ variant \in {"main", "t50"}
         /\ r + 1 <= run
         /\ appended[r].did
         /\ loaded[r + 1].did
         /\ ~flags[r + 1].reset) =>
            SeqToSet(appended[r].keys) \subseteq loaded[r + 1].set

\* the page matches a gate-detection signal of the script: the final URL, the
\* title, the credential inputs or the keywords at the head of the text
GateSignal(v, pg) ==
    IF v = "main"
    THEN \/ pg.finalLogin
         \/ (pg.titleAVDBS /\ pg.titleLogin)
         \/ (pg.formId /\ pg.formPw)
         \/ (/\ pg.adultAt >= 0 /\ pg.adultAt + 5 <= 2000
             /\ pg.loginAt >= 0 /\ pg.loginAt + 3 <= 2000)
    ELSE LET n == IF v = "t50" THEN 1000 ELSE 1500 IN
         \/ (pg.adultAt >= 0 /\ pg.adultAt + 5 <= n)
         \/ (pg.loginAt >= 0 /\ pg.loginAt + 3 <= n)

\* C5: a post whose fetched page matches a gate-detection signal yields None
\* before any media extraction, is not announced, and its key is neither
\* collected nor written to the ledger by that run
C5_GatedPostSkipped ==
    \A e \in log :
        (e.pg.fetch = "ok" /\ GateSignal(variant, e.pg)) =>
            /\ e.res = "none"
            /\ ~e.mediaTried
            /\ ~e.notified
            /\ (e.run = run => KeyOf(variant, e.url) \notin SeqToSet(sent))
            /\ KeyOf(variant, e.url) \notin SeqToSet(appended[e.run].keys)

\* a run met a gated post, delivered another post and wrote its ledger
C5_Witness ==
    /\ variant = "main"
    /\ pc = "done"
    /\ appended[run].did
    /\ appended[run].keys # <<>>
    /\ \E e \in log : e.run = run /\ e.pg.fetch = "ok" /\ GateSignal(variant, e.pg)

\* C6: in main.py an exception raised while a post is extracted ends neither the run
\* nor the queue: the posts after it are processed and the keys of the posts
\* delivered before it are written to the ledger
C6_ExtractionErrorIsolated ==
    \A e \in log :
        (variant = "main" /\ e.res = "raise" /\ e.run <= Len(ends)) =>
            /\ ends[e.run] = "done"
            /\ \A i \in 1..Len(posts[e.run]) :
                   \E d \in log : d.run = e.run /\ d.url = posts[e.run][i].url
            /\ \A d \in Notified(e.run) : KeyOf(variant, d.url) \in Persisted

\* C7: in one run of main.py the posts extracted and delivered are at most
\* the per-run cap, however many listing entries are new
C7_PerRunCap ==
    variant = "main" =>
        \A r \in 1..run : Cardinality(Notified(r)) <= NEW_POST_LIMIT

-----------------------------------------------------------------------------
(* Properties of the canonicalization and of the listing fetchers *)

NoiseNames == {"reply", "sort", "page", "s", "g", "PAGE", "Sort", "S"}

NonNoise(ps) == SelectSeq(ps, LAMBDA q : q.k \notin NoiseNames)

\* the two URLs differ in nothing but excluded query parameters
SameButNoise(a, b) ==
    /\ a.host = b.host /\ a.kind = b.kind /\ a.id = b.id /\ a.trail = b.trail
    /\ NonNoise(a.params) = NonNoise(b.params)

\* C9: URLs that differ only in excluded query parameters, one of them
\* possibly with no or an empty query string, canonicalize to the same text
C9_CanonStable ==
    (step = "canon" /\ SameButNoise(u1, u2)) => Ser(c1) = Ser(c2)

\* the URL under which the script's listing fetcher names an anchor
UrlFor(v, a) ==
    IF v = "main" THEN Ser(canon_url_remove_noise(urljoin(StripHref(a.href))))
    ELSE IF v = "crawler" THEN Ser(a.href)
    ELSE clean_url(a.href)

\* C8: a listing entry flagged as a notice is not among the candidates of
\* main.py's listing fetcher, wherever it stands in the listing
C8_NoticeExcluded ==
    (step = "listed" /\ variant = "main") =>
        \A i \in 1..Len(ents) :
            (/\ ents[i].notice
             /\ ~\E j \in 1..Len(ents) :
                    ~ents[j].notice /\ UrlFor(variant, ents[j]) = UrlFor(variant, ents[i]))
            => UrlFor(variant, ents[i]) \notin Urls(cands)

-----------------------------------------------------------------------------
(* Properties of the extraction and delivery *)

-----------------------------------------------------------------------------
(* Properties of the delivery of one post *)

\* C11: for a post with more than ten valid, distinct images, all of which
\* download, the media delivered are the first ten of the page, in the order
\* of the page
C11_FirstTenInDocumentOrder ==
    (step = "delivered" /\ page = PgMany /\ failing = {}) =>
        /\ Len(shipped) = 10
        /\ \A i \in 1..10 : shipped[i] = absolutize(page.imgs[i].src)

\* the value of the first lazy-load attribute an image element carries
LazyAttr(img) ==
    IF img.data_src # NoAttr THEN img.data_src
    ELSE IF img.data_original # NoAttr THEN img.data_original
    ELSE img.data_echo

\* C18: for an image element that carries a src and a lazy-load attribute,
\* the extractors of main.py and crawler.py collect the value of the
\* lazy-load attribute and not the value of src
C18_LazyAttributePreferred ==
    (/\ step \in {"extracted", "delivered"}
     /\ variant \in {"main", "crawler"}
     /\ content.kind = "data") =>
        \A k \in 1..Len(page.imgs) :
            (/\ page.imgs[k].src # NoAttr
             /\ LazyAttr(page.imgs[k]) # NoAttr
             /\ LazyAttr(page.imgs[k]) # page.imgs[k].src) =>
                /\ absolutize(LazyAttr(page.imgs[k])) \in SeqToSet(content.images)
                /\ absolutize(page.imgs[k].src) \notin SeqToSet(content.images)

\* the image URL contains one of the named non-content markers of
\* main_avdbs.py
HasMarkerAvdbs(u) == \E m \in EXCLUDE_IMG_AVDBS \ {""} : m \in u.marks

\* C21: main_avdbs.py parse_post includes every image whose src is not
\* empty and contains none of the non-content markers, and a post that
\* carries such an image is not skipped as a post with no media
C21_UnmarkedImageIncluded ==
    (/\ variant = "avdbs"
     /\ step \in {"extracted", "delivered", "skipped"}
     /\ content.kind = "data") =>
        \A k \in 1..Len(page.imgs) :
            (/\ page.imgs[k].src # NoAttr
             /\ ~HasMarkerAvdbs(page.imgs[k].src)) =>
                /\ absolutize(page.imgs[k].src) \in SeqToSet(content.images)
                /\ step # "skipped"

\* the place of a media item in the list the extractor returned
PosIn(xs, x) == CHOOSE i \in 1..Len(xs) : xs[i] = x

\* C19: a download that fails skips its item only: every other item of the
\* first ten is sent, the items sent are in the order of the input, they are
\* no more than min(10, input length), and main.py, main_t50.py and
\* main_avdbs.py still record the post
C19_MaterializationBestEffort ==
    step = "delivered" =>
        LET n == IF Len(content.images) < 10 THEN Len(content.images) ELSE 10 IN
        /\ \A i \in 1..n :
               content.images[i].name \notin failing =>
                   content.images[i] \in SeqToSet(shipped)
        /\ \A k \in 1..Len(shipped) :
               \E i \in 1..n : /\ content.images[i] = shipped[k]
                                /\ shipped[k].name \notin failing
        /\ \A k \in 1..Len(shipped) : \A l \in 1..Len(shipped) :
               k < l => PosIn(content.images, shipped[k])
                           < PosIn(content.images, shipped[l])
        /\ Len(shipped) <= n
        /\ variant # "crawler" => recorded

\* of a post with more than ten images the first and the tenth failed to
\* download and the other eight of the first ten were sent
C19_Witness ==
    /\ step = "delivered"
    /\ variant = "main"
    /\ page = PgMany
    /\ failing = {1, 10}
    /\ Len(shipped) = 8
    /\ recorded

\* C12: main.py parse_post on a page that is not gated returns None exactly
\* when the summary is shorter than 60 characters and no image qualifies
C12_WeakContentRejected ==
    (/\ variant = "main"
     /\ step \in {"extracted", "delivered"}
     /\ ~GateSignal("main", page)) =>
        (content.kind = "none" <=>
            (SummaryLen(page.textLen) < 60 /\ ImagesMain(page) = <<>>))

\* a page with a short text and no image was rejected
C12_Witness ==
    /\ variant = "main"
    /\ step = "extracted"
    /\ page = PgText59
    /\ content.kind = "none"

-----------------------------------------------------------------------------
(* Properties of the faults of one run *)

C16_WriteFailureContained ==
    (run >= 1 /\ appended[run].raised) =>
        /\ pc = "done"
        /\ ends[run] = "done"

-----------------------------------------------------------------------------
(* Properties of the ledger operations *)

\* C15: after a call of the ledger write, every key persisted before the
\* call is still persisted, and when the write did not fail the persisted
\* set is the union of the old set and the keys given
C15_LedgerAppendOnly ==
    lg.step = "written" =>
        /\ lg.old \subseteq LoadedKeys(lg.store, lg.f)
        /\ lg.io = "ok" =>
               LoadedKeys(lg.store, lg.f) = lg.old \cup SeqToSet(lg.given)

-----------------------------------------------------------------------------
(* Properties of the listing fetchers *)

\* the number a sequence of digits writes
RECURSIVE IdValue(_)
IdValue(ds) ==
    IF ds = <<>> THEN 0
    ELSE 10 * IdValue(SubSeq(ds, 1, Len(ds) - 1)) + (CodePoint(ds[Len(ds)]) - 48)

\* the listing page shows its posts newest first, none of them pinned
NewestFirst(as) ==
    /\ \A k \in 1..Len(as) : ~as[k].notice
    /\ \A i \in 1..Len(as) : \A j \in 1..Len(as) :
           i < j => IdValue(as[i].href.id) >= IdValue(as[j].href.id)

\* the place in the listing page of the first anchor that names the URL
FirstPos(v, as, u) ==
    CHOOSE k \in 1..Len(as) :
        /\ UrlFor(v, as[k]) = u
        /\ \A j \in 1..(k - 1) : UrlFor(v, as[j]) # u

\* C17: the listing fetchers of main.py and main_avdbs.py return the posts in
\* the order of the listing page, newest first, also when the identifiers
\* differ in their number of digits
C17_ListingOrderKept ==
    (/\ step = "listed"
     /\ variant \in {"main", "avdbs"}
     /\ NewestFirst(ents)) =>
        \A i \in 1..Len(cands) : \A j \in 1..Len(cands) :
            i < j => FirstPos(variant, ents, cands[i].url)
                        < FirstPos(variant, ents, cands[j].url)

-----------------------------------------------------------------------------
(* Properties of the notifier *)

\* C13: when the sendMediaGroup request returns a status other than 200 or
\* raises, the notifier sends the caption as one text message, and sends no
\* text when the request succeeds; the call returns, and the key of the post
\* is recorded
C13_MediaFailureFallsBackToText ==
    (notif.posted /\ notif.step \in {"returned", "recorded"}) =>
        IF notif.status = "200" THEN notif.said = <<>>
        ELSE notif.said = <<notif.caption>>

\* the media group was refused, the caption went out as text, and the key
\* was recorded
C13_Witness ==
    /\ notif.posted
    /\ notif.status = "400"
    /\ notif.said = <<CAPTION>>
    /\ notif.step = "recorded"

\* C20: when the sendMediaGroup request is issued, every descriptor of the
\* media group has its file attached, and so has the descriptor that carries
\* the caption
C20_DescriptorsMatchFiles ==
    notif.posted =>
        /\ \A i \in 1..Len(notif.group) : notif.group[i].key \in notif.files
        /\ \A k \in notif.files : \E i \in 1..Len(notif.group) :
               notif.group[i].key = k
        /\ \E i \in 1..Len(notif.group) :
               notif.group[i].caption /\ notif.group[i].key \in notif.files

====
